---- MODULE Spec2Model ----
(***************************************************************************)
(* Model of pystachio/composite.py: schema-based composite (Struct)        *)
(* values, their construction and functional update, check(), scopes(),    *)
(* interpolate(), interpolate_key(), __getattr__, __eq__ and find().       *)
(*                                                                         *)
(* A wrapped value is a record tagged by k:                                *)
(*   [k |-> "Empty"]                          the Empty sentinel           *)
(*   [k |-> "str", t |-> "lit", s |-> "x"]    String holding a literal     *)
(*   [k |-> "str", t |-> "ref", s |-> "a"]    String holding {{a}}         *)
(*   [k |-> "struct", cls, value, scopes]     a Structural instance        *)
(* A raw (caller supplied) value is [k |-> "rawstr", s], [k |-> "rawdict", *)
(* d] or an already wrapped value.                                         *)
(***************************************************************************)
EXTENDS Integers, Sequences, FiniteSets, TLC

\* ---------------------------------------------------------------- bounds
MaxObjs == 2
MaxArgs == 1
MaxScopes == 1

\* ------------------------------------------------------------ value forms
Empty == [k |-> "Empty"]

Lit(s) == [k |-> "str", t |-> "lit", s |-> s]

Placeholder(n) == [k |-> "str", t |-> "ref", s |-> n]

RawStr(s) == [k |-> "rawstr", s |-> s]

RawDict(d) == [k |-> "rawdict", d |-> d]

EmptyMap == [n \in {} |-> Empty]

\* ---------------------------------------------------------------- schemas
TypeSignature(cls, required, default) ==
  [klazz |-> cls, required |-> required, default |-> default]

Required(cls) == TypeSignature(cls, TRUE, Empty)

Default(cls, default) == TypeSignature(cls, FALSE, default)

Classes == {"Pair", "Outer", "Flags"}

TYPEMAP(cls) ==
  CASE cls = "Pair"  -> [a |-> Required("String"),
                         b |-> TypeSignature("String", FALSE, Empty)]
    [] cls = "Outer" -> [p |-> TypeSignature("Pair", FALSE, Empty),
                         b |-> Required("String")]
    [] cls = "Flags" -> [x |-> Default("String", Lit("x")),
                         has_x |-> TypeSignature("String", FALSE, Empty)]

\* The String type's coercion of a raw python string: the text is split into
\* a literal or a {{name}} placeholder.
StringCoerce(s) ==
  CASE s = "{{a}}" -> Placeholder("a")
    [] s = "{{b}}" -> Placeholder("b")
    [] OTHER       -> Lit(s)

isinstance(value, klazz) ==
  \/ klazz = "String" /\ value.k = "str"
  \/ klazz # "String" /\ value.k = "struct" /\ value.cls = klazz

\* All orders in which a collection with element set S may be listed.
Orders(S) ==
  {o \in [1..Cardinality(S) -> S] : \A i, j \in 1..Cardinality(S) : i # j => o[i] # o[j]}

\* Every attribute name that occurs as a dict key, in one fixed listing.
AttrSeq == <<"a", "b", "p", "x", "has_x", "zz">>

Reverse(s) == [i \in 1..Len(s) |-> s[Len(s) + 1 - i]]

\* dict iteration order is not fixed by the language: a rank lists all keys,
\* and a dict's items() come out in rank order.  Both directions are
\* considered, so every pair of keys is visited in both relative orders.
Ranks == {AttrSeq, Reverse(AttrSeq)}

items(S, rank) == SelectSeq(rank, LAMBDA n : n \in S)

\* ------------------------------------------- construction (lines 155-191)
RECURSIVE process_schema_attribute(_, _, _, _)
RECURSIVE update_schema_data(_, _, _, _, _)
RECURSIVE apply_from(_, _, _, _, _)

\* Defaults with the fields that have no default left out.
Defaults_only_set(cls) ==
  [attr \in {n \in DOMAIN TYPEMAP(cls) : TYPEMAP(cls)[n].default # Empty} |->
     TYPEMAP(cls)[attr].default]

Defaults(cls) == [attr \in DOMAIN TYPEMAP(cls) |-> TYPEMAP(cls)[attr].default]

apply(cls, args, kw, rank) == apply_from(cls, Defaults(cls), args, kw, rank)

\* Object.__init__ of a Structural: _value = apply(*args, **kw), no scopes.
Construct(cls, args, kw, rank) ==
  LET r == apply(cls, args, kw, rank)
  IN  IF r.ok
        THEN [ok |-> TRUE,
              v |-> [k |-> "struct", cls |-> cls, value |-> r.value, scopes |-> <<>>]]
        ELSE [ok |-> FALSE, err |-> r.err]

\* klazz(value): the constructor of the field's wrapped type.
Coerce(klazz, value, rank) ==
  IF klazz = "String"
    THEN IF value.k = "rawstr"
           THEN [ok |-> TRUE, v |-> StringCoerce(value.s)]
           ELSE [ok |-> FALSE, err |-> "CoercionError"]
    ELSE Construct(klazz, <<value>>, EmptyMap, rank)

process_schema_attribute(cls, attr, value, rank) ==
  IF attr \notin DOMAIN TYPEMAP(cls)
    THEN [ok |-> FALSE, err |-> "AttributeError"]
    ELSE LET schema_type == TYPEMAP(cls)[attr]
         IN  IF value = Empty
               THEN [ok |-> TRUE, v |-> Empty]
               ELSE IF isinstance(value, schema_type.klazz)
                      THEN [ok |-> TRUE, v |-> value]
                      ELSE Coerce(schema_type.klazz, value, rank)

\* for attr, val in kw.items(): value[attr] = ...; ord lists the items still
\* to visit.  The dict is updated in place, so on an error the entries
\* processed before it stay written in the returned value; done counts them.
update_schema_data(cls, value, kw, ord, rank) ==
  IF ord = <<>>
    THEN [ok |-> TRUE, value |-> value, done |-> 0]
    ELSE LET attr == Head(ord)
             r == process_schema_attribute(cls, attr, kw[attr], rank)
         IN  IF r.ok
               THEN LET u == update_schema_data(cls,
                              [n \in DOMAIN value \cup {attr} |->
                                 IF n = attr THEN r.v ELSE value[n]],
                              kw, Tail(ord), rank)
                    IN  [u EXCEPT !.done = @ + 1]
               ELSE [ok |-> FALSE, err |-> r.err, value |-> value, done |-> 0]

RECURSIVE apply_from_kw_first(_, _, _, _, _)
\* apply with the keyword map written before the positional maps.
apply_from_kw_first(cls, value, args, kw, rank) ==
  LET r == update_schema_data(cls, value, kw, items(DOMAIN kw, rank), rank)
  IN  IF ~r.ok \/ args = <<>>
        THEN r
        ELSE IF Head(args).k # "rawdict"
               THEN [ok |-> FALSE, err |-> "ValueError", value |-> value, done |-> 0]
               ELSE apply_from_kw_first(cls, r.value, Tail(args), Head(args).d, rank)

\* The loop of apply over the positional args, then the keyword map.
apply_from(cls, value, args, kw, rank) ==
  IF args = <<>>
    THEN update_schema_data(cls, value, kw, items(DOMAIN kw, rank), rank)
    ELSE LET arg == Head(args)
         IN  IF arg.k # "rawdict"
               THEN [ok |-> FALSE, err |-> "ValueError", value |-> value, done |-> 0]
               ELSE LET r == update_schema_data(cls, value, arg.d,
                                                items(DOMAIN arg.d, rank), rank)
                    IN  IF r.ok THEN apply_from(cls, r.value, Tail(args), kw, rank)
                                ELSE r

\* ------------------------------------------------ scopes (lines 243-246)
\* Environment(self_scope): the frame of the non-Empty fields.
Environment(value) == [n \in {m \in DOMAIN value : value[m] # Empty} |-> value[n]]

\* scopes with the inherited frames consulted before the self-scope.
scopes_outer_first(self) == self.scopes \o <<Environment(self.value)>>

scopes(self) == <<Environment(self.value)>> \o self.scopes

\* Object.in_scope on a Structural: a copy whose own frames are followed by
\* the given ones.
in_scope(obj, frames) == [obj EXCEPT !.scopes = @ \o frames]

\* Object.in_scope on a String, which the model stores without frames.
scoped(leaf, frames) == [k |-> "scoped", v |-> leaf, scopes |-> frames]

\* --------------------------------------- placeholder resolution of a leaf
\* The frames of chain that bind name n, innermost first.
Binders(n, chain) == SelectSeq(chain, LAMBDA fr : n \in DOMAIN fr)

RECURSIVE resolve(_, _, _)
\* String.interpolate in the scope chain: a placeholder is looked up in the
\* first frame that binds it and the bound value is resolved in turn; a name
\* no frame binds, or one already being resolved on this path (visiting), is
\* unbound and its placeholder stays.  steps counts the lookups made.
resolve(leaf, chain, visiting) ==
  IF leaf.t = "lit"
    THEN [v |-> leaf, unbound |-> {}, steps |-> 0]
    ELSE LET n == leaf.s
             bs == Binders(n, chain)
         IN  IF n \in visiting \/ bs = <<>> \/ Head(bs)[n].k # "str"
               THEN [v |-> leaf, unbound |-> {n}, steps |-> 0]
               ELSE LET r == resolve(Head(bs)[n], chain, visiting \cup {n})
                    IN  [r EXCEPT !.steps = @ + 1]

\* --------------------------------------------- interpolate (lines 248-265)
RECURSIVE interpolate_from(_, _, _, _, _)
RECURSIVE interpolate(_, _)

\* value.in_scope(*scopes).interpolate() of one field value.
interpolate_value(value, chain, rank) ==
  IF value.k = "struct"
    THEN interpolate(in_scope(value, chain), rank)
    ELSE resolve(value, chain, {})

RECURSIVE interpolate_from_skip_empty(_, _, _, _, _)
\* The loop of interpolate, leaving Empty fields out of the new data.
interpolate_from_skip_empty(self, keys, data, acc, rank) ==
  IF keys = <<>>
    THEN [data |-> data, unbound |-> acc.unbound, steps |-> acc.steps]
    ELSE LET key == Head(keys)
             value == self.value[key]
         IN  IF value = Empty
               THEN interpolate_from_skip_empty(self, Tail(keys), data, acc, rank)
               ELSE LET r == interpolate_value(value, scopes(self), rank)
                    IN  interpolate_from_skip_empty(self, Tail(keys),
                          [n \in DOMAIN data \cup {key} |-> IF n = key THEN r.v ELSE data[n]],
                          [unbound |-> acc.unbound \cup r.unbound,
                           steps |-> acc.steps + r.steps],
                          rank)

RECURSIVE interpolate_from_drop_unbound(_, _, _, _, _)
\* The loop of interpolate, without unbound.update(vunbound).
interpolate_from_drop_unbound(self, keys, data, acc, rank) ==
  IF keys = <<>>
    THEN [data |-> data, unbound |-> acc.unbound, steps |-> acc.steps]
    ELSE LET key == Head(keys)
             value == self.value[key]
         IN  IF value = Empty
               THEN interpolate_from_drop_unbound(self, Tail(keys),
                      [n \in DOMAIN data \cup {key} |-> IF n = key THEN Empty ELSE data[n]],
                      acc, rank)
               ELSE LET r == interpolate_value(value, scopes(self), rank)
                    IN  interpolate_from_drop_unbound(self, Tail(keys),
                          [n \in DOMAIN data \cup {key} |-> IF n = key THEN r.v ELSE data[n]],
                          [unbound |-> acc.unbound, steps |-> acc.steps + r.steps],
                          rank)

\* The loop of interpolate: keys lists the fields still to visit, data and
\* unbound are interpolated_schema_data and the unbound set so far.
interpolate_from(self, keys, data, acc, rank) ==
  IF keys = <<>>
    THEN [data |-> data, unbound |-> acc.unbound, steps |-> acc.steps]
    ELSE LET key == Head(keys)
             value == self.value[key]
         IN  IF value = Empty
               THEN interpolate_from(self, Tail(keys),
                      [n \in DOMAIN data \cup {key} |-> IF n = key THEN Empty ELSE data[n]],
                      acc, rank)
               ELSE LET r == interpolate_value(value, scopes(self), rank)
                    IN  interpolate_from(self, Tail(keys),
                          [n \in DOMAIN data \cup {key} |-> IF n = key THEN r.v ELSE data[n]],
                          [unbound |-> acc.unbound \cup r.unbound,
                           steps |-> acc.steps + r.steps],
                          rank)

\* interpolate(): the new value self.__class__(**interpolated_schema_data)
\* and the unbound names (as a set; the caller sees them listed in some
\* order).
interpolate(self, rank) ==
  LET r == interpolate_from(self, items(DOMAIN self.value, rank), EmptyMap,
                            [unbound |-> {}, steps |-> 0], rank)
      c == Construct(self.cls, <<>>, r.data, rank)
  IN  [v |-> c.v, unbound |-> r.unbound, steps |-> r.steps]

interpolate_key(self, attribute, rank) ==
  IF self.value[attribute] = Empty
    THEN [ok |-> TRUE, v |-> Empty, steps |-> 0]
    ELSE LET r == interpolate_value(self.value[attribute], scopes(self), rank)
             c == process_schema_attribute(self.cls, attribute, r.v, rank)
         IN  [ok |-> c.ok, v |-> c.v, steps |-> r.steps]

\* -------------------------------------------------- check (lines 230-241)
RECURSIVE check_from(_, _, _)

check(self, rank) == check_from(self, items(DOMAIN TYPEMAP(self.cls), rank), rank)

\* The check of a present field value in the scope chain.  A String holds
\* text whatever its placeholders resolve to, so its own check succeeds.
check_value(value, chain, rank) ==
  IF value.k = "struct"
    THEN check(in_scope(value, chain), rank)
    ELSE [ok |-> TRUE, msg |-> <<>>]

RECURSIVE check_from_skip_required(_, _, _)
\* The loop of check, passing over an unset field whether required or not.
check_from_skip_required(self, names, rank) ==
  IF names = <<>>
    THEN [ok |-> TRUE, msg |-> <<>>]
    ELSE LET name == Head(names)
         IN  IF self.value[name] # Empty
               THEN LET type_check == check_value(self.value[name], scopes(self), rank)
                    IN  IF type_check.ok
                          THEN check_from_skip_required(self, Tail(names), rank)
                          ELSE [ok |-> FALSE,
                                msg |-> <<self.cls, name, "failed">> \o type_check.msg]
               ELSE check_from_skip_required(self, Tail(names), rank)

\* The loop of check over TYPEMAP.items(); names lists the fields still to
\* visit.  A failure message is the sequence <<class, field, kind>> followed,
\* for a nested failure, by the nested message.
check_from(self, names, rank) ==
  IF names = <<>>
    THEN [ok |-> TRUE, msg |-> <<>>]
    ELSE LET name == Head(names)
             signature == TYPEMAP(self.cls)[name]
         IN  IF self.value[name] = Empty /\ signature.required
               THEN [ok |-> FALSE, msg |-> <<self.cls, name, "is required">>]
               ELSE IF self.value[name] # Empty
                      THEN LET type_check == check_value(self.value[name], scopes(self), rank)
                           IN  IF type_check.ok
                                 THEN check_from(self, Tail(names), rank)
                                 ELSE [ok |-> FALSE,
                                       msg |-> <<self.cls, name, "failed">> \o type_check.msg]
                      ELSE check_from(self, Tail(names), rank)

\* --------------------------------------------------- find (lines 300-314)
\* A Ref is a sequence of components [kind, value]: kind "deref" is the
\* plain field dereference (.name), kind "index" is the index form ([name]).
Deref(n) == [kind |-> "deref", value |-> n]

Index(n) == [kind |-> "index", value |-> n]

is_dereference(ref) == ref # <<>> /\ Head(ref).kind = "deref"

\* Only Structural values are Namable; a String is not.
IsNamable(value) == value.k = "struct"

RECURSIVE find(_, _)
\* find with the field lookup made before the addressing-mode test.
find_notfound_first(self, ref) ==
  LET name == Head(ref).value
  IN  IF name \notin DOMAIN TYPEMAP(self.cls) \/ self.value[name] = Empty
        THEN [ok |-> FALSE, err |-> "NotFound"]
        ELSE IF ~is_dereference(ref)
               THEN [ok |-> FALSE, err |-> "NamingError"]
               ELSE LET namable == self.value[name]
                    IN  IF Tail(ref) = <<>>
                          THEN [ok |-> TRUE,
                                v |-> IF namable.k = "struct"
                                        THEN in_scope(namable, scopes(self))
                                        ELSE scoped(namable, scopes(self))]
                          ELSE IF ~IsNamable(namable)
                                 THEN [ok |-> FALSE, err |-> "Unnamable"]
                                 ELSE find(in_scope(namable, scopes(self)), Tail(ref))

find(self, ref) ==
  IF ~is_dereference(ref)
    THEN [ok |-> FALSE, err |-> "NamingError"]
    ELSE LET name == Head(ref).value
         IN  IF name \notin DOMAIN TYPEMAP(self.cls) \/ self.value[name] = Empty
               THEN [ok |-> FALSE, err |-> "NotFound"]
               ELSE LET namable == self.value[name]
                    IN  IF Tail(ref) = <<>>
                          THEN [ok |-> TRUE,
                                v |-> IF namable.k = "struct"
                                        THEN in_scope(namable, scopes(self))
                                        ELSE scoped(namable, scopes(self))]
                          ELSE IF ~IsNamable(namable)
                                 THEN [ok |-> FALSE, err |-> "Unnamable"]
                                 ELSE find(in_scope(namable, scopes(self)), Tail(ref))

\* -------------------------------------------- __getattr__ (lines 217-228)
\* attr.startswith('has_') and attr[4:], for the attribute names in use.
startswith_has(attr) == attr \in {"has_a", "has_b", "has_p", "has_x", "has_has_x", "has_zz"}

strip_has(attr) ==
  CASE attr = "has_a" -> "a"
    [] attr = "has_b" -> "b"
    [] attr = "has_p" -> "p"
    [] attr = "has_x" -> "x"
    [] attr = "has_has_x" -> "has_x"
    [] attr = "has_zz" -> "zz"

\* The value obtained by reading the attribute and calling what it returns.
getattr(self, attr, rank) ==
  IF startswith_has(attr) /\ strip_has(attr) \in DOMAIN TYPEMAP(self.cls)
    THEN [ok |-> TRUE, kind |-> "has", v |-> self.value[strip_has(attr)] # Empty]
    ELSE IF attr \notin DOMAIN TYPEMAP(self.cls)
           THEN [ok |-> FALSE, kind |-> "AttributeError"]
           ELSE [ok |-> TRUE, kind |-> "key", v |-> interpolate_key(self, attr, rank).v]

\* ------------------------------------------------- __eq__ (lines 202-207)
\* __eq__ comparing the field mappings as stored, without interpolating.
eq_raw(self, other, rank) ==
  IF other.k # "struct" THEN FALSE
  ELSE IF TYPEMAP(self.cls) # TYPEMAP(other.cls) THEN FALSE
  ELSE self.value = other.value

\* TYPEMAP != TYPEMAP: the same field names with equal signatures.
eq(self, other, rank) ==
  IF other.k # "struct" THEN FALSE
  ELSE IF TYPEMAP(self.cls) # TYPEMAP(other.cls) THEN FALSE
  ELSE interpolate(self, rank).v.value = interpolate(other, rank).v.value

\* --------------------------------------------- __call__ (lines 197-200)
\* self.copy(): a new object with a copy of the field mapping and frames.
copy(self) == [k |-> "struct", cls |-> self.cls, value |-> self.value, scopes |-> self.scopes]

\* __call__ writing the overrides into the receiver's own mapping.
call_in_place(self, kw, rank) ==
  LET r == update_schema_data(self.cls, self.value, kw, items(DOMAIN kw, rank), rank)
      written == [self EXCEPT !.value = r.value]
  IN  IF r.ok
        THEN [ok |-> TRUE, self |-> written, new_self |-> written]
        ELSE [ok |-> FALSE, err |-> r.err, done |-> r.done, self |-> written,
              new_self |-> written]

\* new_self = self.copy(); _update_schema_data(new_self._value, **kw);
\* return new_self.  The result tells the receiver and new_self as they are
\* when the call returns or raises.
call(self, kw, rank) ==
  LET new_self == copy(self)
      r == update_schema_data(self.cls, new_self.value, kw, items(DOMAIN kw, rank), rank)
  IN  IF r.ok
        THEN [ok |-> TRUE, self |-> self, new_self |-> [new_self EXCEPT !.value = r.value]]
        ELSE [ok |-> FALSE, err |-> r.err, done |-> r.done, self |-> self,
              new_self |-> [new_self EXCEPT !.value = r.value]]

\* ------------------------------------------------------------ the inputs
Maps(S, vals) == UNION {[D -> vals] : D \in SUBSET S}

\* Merge of maps with disjoint key sets.
Merge(f, g) == [n \in DOMAIN f \cup DOMAIN g |-> IF n \in DOMAIN f THEN f[n] ELSE g[n]]

\* Override maps naming declared fields only.
KnownOverrides(cls) ==
  CASE cls = "Pair" ->
         {Merge(f, g) : f \in Maps({"a"}, {RawStr("{{a}}"), RawStr("{{b}}")}),
                        g \in Maps({"b"}, {RawStr("x"), RawStr("{{a}}")})}
    [] cls = "Outer" ->
         {Merge(f, g) : f \in Maps({"p"}, {RawDict(EmptyMap),
                                           RawDict([a |-> RawStr("{{b}}")]),
                                           RawDict([a |-> RawStr("{{b}}"), b |-> RawStr("x")])}),
                        g \in Maps({"b"}, {RawStr("y")})}
    [] cls = "Flags" ->
         {Merge(f, g) : f \in Maps({"x"}, {Empty}),
                        g \in Maps({"has_x"}, {RawStr("x")})}

\* Override maps that also name zz, which no schema declares.
UnknownOverrides(cls) ==
  {Merge(f, [zz |-> RawStr("x")]) :
     f \in {d \in KnownOverrides(cls) : Cardinality(DOMAIN d) <= 1}}

Overrides(cls) == KnownOverrides(cls) \cup UnknownOverrides(cls)

\* Positional arguments: override maps of one entry at most, or a string
\* where a map is expected.
ArgVals(cls) ==
  {RawDict(d) : d \in {f \in KnownOverrides(cls) : Cardinality(DOMAIN f) <= 1}}
    \cup {RawStr("x")}

ArgLists(cls) == UNION {[1..n -> ArgVals(cls)] : n \in 0..MaxArgs}

\* Frames a caller places a value in.
Frames == {[b |-> Lit("x")], [b |-> Lit("y")]}

AttrNames == {"a", "p", "x", "has_x", "has_a", "has_p", "zz"}

MaxPath == 2

Components == {Deref("p"), Deref("a"), Index("p")}

Refs == UNION {[1..n -> Components] : n \in 1..MaxPath}

\* ------------------------------------------------------------- the state
VARIABLES objs, ret

vars == <<objs, ret>>

Free == [k |-> "free"]

Live == {i \in 1..MaxObjs : objs[i] # Free}

NextFree == CHOOSE j \in (1..MaxObjs) \ Live : \A m \in (1..MaxObjs) \ Live : j <= m

HasFree == Live # 1..MaxObjs

\* ret holds the outcome of the call that has just returned, until the
\* caller goes on; the caller makes its next call from there.
Idle == ret.op = "none"

Init ==
  /\ objs = [i \in 1..MaxObjs |-> Free]
  /\ ret = [op |-> "none"]

\* cls(*args, **kw)
New ==
  /\ Idle
  /\ HasFree
  /\ \E cls \in Classes, rank \in Ranks :
       \E args \in ArgLists(cls), kw \in Overrides(cls) :
         LET c == Construct(cls, args, kw, rank)
         IN  IF c.ok
               THEN /\ objs' = [objs EXCEPT ![NextFree] = c.v]
                    /\ ret' = [op |-> "new", ok |-> TRUE, cls |-> cls, args |-> args,
                               kw |-> kw, id |-> NextFree]
               ELSE /\ UNCHANGED objs
                    /\ ret' = [op |-> "new", ok |-> FALSE, cls |-> cls, err |-> c.err]

\* objs[i](**kw), also chained on the value a construction just returned:
\* cls(*args, **kw)(**kw2)
Call ==
  /\ IF Idle THEN TRUE ELSE ret.op = "new" /\ ret.ok
  /\ HasFree
  /\ \E i \in Live, rank \in Ranks :
       /\ IF Idle THEN TRUE ELSE ret.id = i
       /\ \E kw \in Overrides(objs[i].cls) :
            LET r == call(objs[i], kw, rank)
            IN  IF r.ok
                  THEN /\ objs' = [objs EXCEPT ![i] = r.self, ![NextFree] = r.new_self]
                       /\ ret' = [op |-> "call", ok |-> TRUE, recv |-> i, kw |-> kw,
                                  id |-> NextFree]
                  ELSE /\ objs' = [objs EXCEPT ![i] = r.self]
                       /\ ret' = [op |-> "call", ok |-> FALSE, recv |-> i, err |-> r.err,
                                  done |-> r.done]

\* objs[i].in_scope(frame)
InScope ==
  /\ Idle
  /\ HasFree
  /\ \E i \in Live, fr \in Frames :
       /\ Len(objs[i].scopes) < MaxScopes
       /\ objs' = [objs EXCEPT ![NextFree] = in_scope(objs[i], <<fr>>)]
       /\ ret' = [op |-> "in_scope", recv |-> i, id |-> NextFree]

\* The last reference to objs[i] is dropped.
Release ==
  /\ Idle
  /\ \E i \in Live :
       /\ objs' = [objs EXCEPT ![i] = Free]
       /\ ret' = [op |-> "release", id |-> i]

\* objs[i].check()
Check ==
  /\ Idle
  /\ \E i \in Live, rank \in Ranks :
       /\ ret' = [op |-> "check", id |-> i, result |-> check(objs[i], rank)]
       /\ UNCHANGED objs

\* objs[i].interpolate(); list(unbound) comes in some order.
Interpolate ==
  /\ Idle
  /\ \E i \in Live, rank \in Ranks :
       LET r == interpolate(objs[i], rank)
       IN  \E unbound \in Orders(r.unbound) :
             /\ ret' = [op |-> "interpolate", id |-> i, v |-> r.v, unbound |-> unbound,
                        steps |-> r.steps]
             /\ UNCHANGED objs

\* objs[i].<attr>()
GetAttr ==
  /\ Idle
  /\ \E i \in Live, attr \in AttrNames, rank \in Ranks :
       /\ ret' = [op |-> "getattr", id |-> i, attr |-> attr,
                  result |-> getattr(objs[i], attr, rank)]
       /\ UNCHANGED objs

\* objs[i] == objs[j]
Eq ==
  /\ Idle
  /\ \E i \in Live, j \in Live, rank \in Ranks :
       /\ ret' = [op |-> "eq", id |-> i, other |-> j,
                  result |-> eq(objs[i], objs[j], rank)]
       /\ UNCHANGED objs

\* objs[i].find(ref)
Find ==
  /\ Idle
  /\ \E i \in Live, ref \in Refs :
       /\ ret' = [op |-> "find", id |-> i, ref |-> ref, result |-> find(objs[i], ref)]
       /\ UNCHANGED objs

\* The caller takes the outcome and goes on.
Continue ==
  /\ ~Idle
  /\ ret' = [op |-> "none"]
  /\ UNCHANGED objs

Next ==
  \/ Continue
  \/ New
  \/ Call
  \/ InScope
  \/ Release
  \/ Check
  \/ Interpolate
  \/ GetAttr
  \/ Eq
  \/ Find

Spec == Init /\ [][Next]_vars

\* ================================================================ claims
Range(seq) == {seq[k] : k \in 1..Len(seq)}

Fields(v) == DOMAIN TYPEMAP(v.cls)

StructFields(v) == {f \in DOMAIN v.value : v.value[f].k = "struct"}

RECURSIVE KeysMatch(_)
\* The key set of v's mapping, and of every composite nested in it, is the
\* field-name set of its schema.
KeysMatch(v) ==
  /\ v.k = "struct"
  /\ DOMAIN v.value = Fields(v)
  /\ \A f \in StructFields(v) : KeysMatch(v.value[f])

\* C1: every composite value held by the program, and every value returned
\* by interpolate(), has exactly the field names of its schema as the keys
\* of its field mapping, whichever fields the caller supplied.
C1_SchemaClosure ==
  /\ \A i \in Live : KeysMatch(objs[i])
  /\ ret.op = "interpolate" => KeysMatch(ret.v)

\* A Pair constructed from the single override a: its mapping still has b.
C1_Witness ==
  /\ ret.op = "new" /\ ret.ok
  /\ ret.cls = "Pair" /\ ret.args = <<>> /\ DOMAIN ret.kw = {"a"}
  /\ DOMAIN objs[ret.id].value = {"a", "b"}

\* C2: a functional update objs[i](**kw), whether it returns a new value or
\* raises part-way through the overrides, leaves every existing value as it
\* was; in particular the receiver's field mapping.
C2_ReceiverUnchanged ==
  [][ret'.op = "call" => \A i \in Live : objs'[i] = objs[i]]_vars

\* An update that raised after at least one override had been written.
C2_Witness ==
  /\ ret.op = "call" /\ ~ret.ok
  /\ ret.err = "AttributeError" /\ ret.done >= 1

UnsetRequired(v) == {f \in Fields(v) : TYPEMAP(v.cls)[f].required /\ v.value[f] = Empty}

RECURSIVE Incomplete(_)
\* v, or a composite nested in it, has a required field unset.
Incomplete(v) ==
  \/ UnsetRequired(v) # {}
  \/ \E f \in StructFields(v) : Incomplete(v.value[f])

\* The fields of v on which check() can stop: the unset required fields and
\* the present fields whose own check fails.
FailingFields(v) ==
  UnsetRequired(v) \cup {f \in StructFields(v) : Incomplete(v.value[f])}

NamesAnywhere(msg, cls, f) ==
  \E k \in 1..(Len(msg) - 1) : msg[k] = cls /\ msg[k + 1] = f

\* C3 as claimed: for every required field left unset, check() fails and
\* the message names that field.
C3_Original ==
  ret.op = "check" =>
    \A f \in UnsetRequired(objs[ret.id]) :
      /\ ~ret.result.ok
      /\ NamesAnywhere(ret.result.msg, objs[ret.id].cls, f)

\* C3 amended: when a required field is unset, check() fails, and the
\* failure names one failing field of the value: an unset required field
\* (reported as required) or a present field whose own check fails; it is
\* the unset required field whenever that is the only failing field.
C3_RequiredEnforced ==
  (ret.op = "check" /\ UnsetRequired(objs[ret.id]) # {}) =>
    LET self == objs[ret.id]
        msg == ret.result.msg
    IN  /\ ~ret.result.ok
        /\ Len(msg) >= 3
        /\ msg[1] = self.cls
        /\ msg[2] \in FailingFields(self)
        /\ msg[2] \in UnsetRequired(self) <=> msg = <<self.cls, msg[2], "is required">>
        /\ \A f \in Fields(self) : FailingFields(self) = {f} => msg[2] = f

\* A check that stopped on a nested failure while a required field is unset.
C3_Witness ==
  /\ ret.op = "check"
  /\ UnsetRequired(objs[ret.id]) # {}
  /\ ~ret.result.ok
  /\ ret.result.msg[2] \notin UnsetRequired(objs[ret.id])

\* The override maps of a construction, in the order apply writes them.
OverrideList(args, kw) ==
  [k \in 1..(Len(args) + 1) |-> IF k <= Len(args) THEN args[k].d ELSE kw]

Naming(f, maps) == {k \in 1..Len(maps) : f \in DOMAIN maps[k]}

LastNaming(f, maps) == CHOOSE k \in Naming(f, maps) : \A m \in Naming(f, maps) : m <= k

\* The wrapped form of a supplied value for a field of type klazz.
Wrapped(klazz, raw) ==
  IF raw = Empty \/ raw.k \in {"str", "struct"} THEN raw
  ELSE IF raw.k = "rawstr" THEN StringCoerce(raw.s)
  ELSE Construct(klazz, <<raw>>, EmptyMap, AttrSeq).v

C4_LastWins ==
  (ret.op = "new" /\ ret.ok) =>
    LET maps == OverrideList(ret.args, ret.kw)
    IN  \A f \in DOMAIN TYPEMAP(ret.cls) :
          objs[ret.id].value[f] =
            IF Naming(f, maps) = {}
              THEN TYPEMAP(ret.cls)[f].default
              ELSE Wrapped(TYPEMAP(ret.cls)[f].klazz, maps[LastNaming(f, maps)][f])

C4_UpdateIsApply ==
  (ret.op = "new" /\ ret.ok /\ ret'.op = "call" /\ ret'.ok /\ ret'.recv = ret.id) =>
    objs'[ret'.id].value =
      apply(ret.cls, ret.args \o <<RawDict(ret.kw)>>, ret'.kw, AttrSeq).value

\* C4: a constructed value has, for each field, the wrapped value of the
\* last override map naming it (positional maps left to right, then the
\* keyword map) and the schema default where none names it; and updating a
\* just constructed value T(O1) with O2 gives the mapping of the value
\* constructed from O1 then O2 in one step.
C4_LastOverrideWins == []C4_LastWins /\ [][C4_UpdateIsApply]_vars

\* A construction whose keyword map names a field its positional map names.
C4_Witness ==
  /\ ret.op = "new" /\ ret.ok /\ Len(ret.args) >= 1
  /\ \E f \in DOMAIN ret.kw :
       /\ f \in DOMAIN ret.args[1].d
       /\ ret.args[1].d[f] # ret.kw[f]

\* The full scope chain of v: its self-scope, then its attached frames.
FullChain(v) == <<Environment(v.value)>> \o v.scopes

IsLit(v) == v.k = "str" /\ v.t = "lit"

IsRef(v) == v.k = "str" /\ v.t = "ref"

\* The literal the first frame of chain binding n binds it to, if any.
BoundLit(n, chain) ==
  IF Binders(n, chain) # <<>> /\ IsLit(Head(Binders(n, chain))[n])
    THEN {Head(Binders(n, chain))[n]}
    ELSE {}

\* In the result res of interpolating composite v within the outer frames
\* outer: a placeholder naming a sibling bound to a literal becomes that
\* literal; one naming no sibling becomes the literal the first outer frame
\* binding it gives.
ResolvedInnermost(v, res, outer) ==
  \A f \in DOMAIN v.value :
    IsRef(v.value[f]) =>
      LET n == v.value[f].s
      IN  /\ (n \in DOMAIN v.value /\ IsLit(v.value[n])) => res.value[f] = v.value[n]
          /\ (n \notin DOMAIN Environment(v.value)) =>
               \A w \in BoundLit(n, outer) : res.value[f] = w

\* C5: interpolation resolves a placeholder in the chain [self-scope]
\* followed by the attached outer frames, innermost first, at the top level
\* and inside a composite nested as a field value, whose chain is its own
\* self-scope, its own frames, then the enclosing composite's chain.
C5_InnermostFirst ==
  ret.op = "interpolate" =>
    LET self == objs[ret.id]
    IN  /\ ResolvedInnermost(self, ret.v, self.scopes)
        /\ \A f \in StructFields(self) :
             ResolvedInnermost(self.value[f], ret.v.value[f],
                               self.value[f].scopes \o FullChain(self))

\* An Outer binding b to y whose nested Pair binds b to x and holds {{b}}.
C5_Witness ==
  /\ ret.op = "interpolate"
  /\ objs[ret.id].cls = "Outer"
  /\ objs[ret.id].value["b"] = Lit("y")
  /\ objs[ret.id].value["p"] # Empty
  /\ objs[ret.id].value["p"].value["a"] = Placeholder("b")
  /\ objs[ret.id].value["p"].value["b"] = Lit("x")
  /\ ret.v.value["p"].value["a"] = Lit("x")
  /\ ret.unbound = <<>>

\* C6: interpolate() returns a composite of the receiver's type whose
\* fields are Empty where the receiver's are and otherwise the field's
\* interpolation in the full scope chain, with a duplicate-free list of
\* exactly the names left unbound in some field.
C6_InterpolateResult ==
  ret.op = "interpolate" =>
    LET self == objs[ret.id]
        present == {f \in DOMAIN self.value : self.value[f] # Empty}
    IN  /\ ret.v.k = "struct" /\ ret.v.cls = self.cls
        /\ DOMAIN ret.v.value = DOMAIN self.value
        /\ \A f \in DOMAIN self.value \ present : ret.v.value[f] = Empty
        /\ \A f \in present :
             ret.v.value[f] = interpolate_value(self.value[f], FullChain(self), AttrSeq).v
        /\ Cardinality(Range(ret.unbound)) = Len(ret.unbound)
        /\ Range(ret.unbound) =
             UNION {interpolate_value(self.value[f], FullChain(self), AttrSeq).unbound :
                      f \in present}

\* A value whose defaulted field was set to Empty, interpolated.
C6_Witness ==
  /\ ret.op = "interpolate"
  /\ \E f \in DOMAIN objs[ret.id].value :
       /\ objs[ret.id].value[f] = Empty
       /\ TYPEMAP(objs[ret.id].cls)[f].default # Empty
       /\ ret.v.value[f] = Empty

RECURSIVE FieldCount(_)
FieldCount(v) ==
  IF StructFields(v) = {}
    THEN Cardinality(DOMAIN v.value)
    ELSE LET f == CHOOSE g \in StructFields(v) : TRUE
         IN  FieldCount(v.value[f]) + FieldCount([v EXCEPT !.value[f] = Empty])

RECURSIVE Closed(_)
\* Every placeholder in v names a set sibling field, at each nesting level.
Closed(v) ==
  \A f \in DOMAIN v.value :
    /\ IsRef(v.value[f]) => v.value[f].s \in DOMAIN Environment(v.value)
    /\ v.value[f].k = "struct" => Closed(v.value[f])

\* The first frame of chain binding n, if any, binds it to a literal.
LitOrUnbound(n, chain) ==
  Binders(n, chain) = <<>> \/ IsLit(Head(Binders(n, chain))[n])

\* Some field holds a placeholder that no sibling binds and that the outer
\* frames of s and o resolve differently.
OuterBoundDifferently(s, o) ==
  \E f \in DOMAIN s.value :
    /\ IsRef(s.value[f])
    /\ s.value[f].s \notin DOMAIN Environment(s.value)
    /\ LitOrUnbound(s.value[f].s, s.scopes)
    /\ LitOrUnbound(s.value[f].s, o.scopes)
    /\ BoundLit(s.value[f].s, s.scopes) # BoundLit(s.value[f].s, o.scopes)

SameMapping(s, o) == TYPEMAP(s.cls) = TYPEMAP(o.cls) /\ s.value = o.value

\* C8 as claimed: values of one schema with equal field mappings compare
\* equal whatever outer frames each carries.
C8_Original ==
  ret.op = "eq" => (SameMapping(objs[ret.id], objs[ret.other]) => ret.result)

\* C8 amended: equality compares the interpolated field mappings.  Values of
\* one schema with equal field mappings compare equal, whatever their outer
\* frames, when every placeholder names a set sibling field; they compare
\* unequal when a placeholder bound by no sibling is resolved differently by
\* the two values' outer frames.
C8_EqualityInterpolates ==
  ret.op = "eq" =>
    LET s == objs[ret.id]
        o == objs[ret.other]
    IN  /\ (SameMapping(s, o) /\ Closed(s)) => ret.result
        /\ (SameMapping(s, o) /\ OuterBoundDifferently(s, o)) => ~ret.result

\* Two values with one mapping holding a sibling placeholder and different
\* outer frames, compared equal.
C8_Witness ==
  /\ ret.op = "eq"
  /\ SameMapping(objs[ret.id], objs[ret.other])
  /\ objs[ret.id].scopes # objs[ret.other].scopes
  /\ Closed(objs[ret.id])
  /\ \E f \in DOMAIN objs[ret.id].value : IsRef(objs[ret.id].value[f])
  /\ ret.result

RECURSIVE FindOutcome(_, _)
\* What find is to give, by the case the reference and the value are in.
FindOutcome(self, ref) ==
  LET name == Head(ref).value
      declared == name \in DOMAIN TYPEMAP(self.cls)
      set == declared /\ self.value[name] # Empty
      chain == FullChain(self)
  IN  CASE Head(ref).kind # "deref" ->
             [ok |-> FALSE, err |-> "NamingError"]
        [] Head(ref).kind = "deref" /\ ~set ->
             [ok |-> FALSE, err |-> "NotFound"]
        [] Head(ref).kind = "deref" /\ set /\ Len(ref) > 1
             /\ self.value[name].k # "struct" ->
             [ok |-> FALSE, err |-> "Unnamable"]
        [] Head(ref).kind = "deref" /\ set /\ Len(ref) = 1
             /\ self.value[name].k = "struct" ->
             [ok |-> TRUE, v |-> [self.value[name] EXCEPT !.scopes = @ \o chain]]
        [] Head(ref).kind = "deref" /\ set /\ Len(ref) = 1
             /\ self.value[name].k # "struct" ->
             [ok |-> TRUE, v |-> [k |-> "scoped", v |-> self.value[name], scopes |-> chain]]
        [] OTHER ->
             FindOutcome([self.value[name] EXCEPT !.scopes = @ \o chain], Tail(ref))

\* C9: find(ref) fails with a naming error when the first component is not
\* a plain dereference, else with not-found when the field is undeclared or
\* Empty, else with unnamable when path remains and the value is a String;
\* otherwise it returns the value placed in the scope chain, or what find
\* of the remaining path gives on that value, by the same rules.
C9_FindCases ==
  ret.op = "find" => ret.result = FindOutcome(objs[ret.id], ret.ref)

\* A two-component path resolved through a nested composite.
C9_Witness ==
  /\ ret.op = "find"
  /\ Len(ret.ref) = 2
  /\ ret.result.ok
  /\ ret.result.v.k = "scoped"
  /\ Len(ret.result.v.scopes) >= 2

\* C10 as claimed: a declared field name reads as interpolate_key of the
\* field, has_<field> of a declared field reads as its presence, and any
\* other name raises AttributeError.
C10_Original ==
  ret.op = "getattr" =>
    LET self == objs[ret.id]
        attr == ret.attr
        declared == attr \in DOMAIN TYPEMAP(self.cls)
        presence == startswith_has(attr) /\ strip_has(attr) \in DOMAIN TYPEMAP(self.cls)
    IN  /\ declared =>
             /\ ret.result.kind = "key"
             /\ ret.result.v = interpolate_key(self, attr, AttrSeq).v
        /\ presence =>
             /\ ret.result.kind = "has"
             /\ ret.result.v = (self.value[strip_has(attr)] # Empty)
        /\ (~declared /\ ~presence) => ret.result.kind = "AttributeError"

====
